---- MODULE Spec2Model ----
(***************************************************************************)
(* A model of domain_suffixes: the reversed-label suffix trie (_Node,      *)
(* _Trie), the registry construction of Suffixes.__init__ and the queries  *)
(* get_all_tlds, get_tld and parse with the ParsedResult they build.       *)
(*                                                                         *)
(* Encoding of Python values.  A str is the tuple of its characters, each  *)
(* character a one-character TLA+ string (a non-ASCII code point is        *)
(* written "U+xxxx"); so "" is << >> and "co.uk" is <<"c","o",".","u","k">>.*)
(* A list is a tuple.  None is the tuple None in a place whose other       *)
(* values are str, and the record NoneObj in a place whose other values    *)
(* are objects.  A bool that may also be None (is_public_suffix, the       *)
(* effective-tld-is-public flag) is one of "True", "False", "None".  A     *)
(* call's outcome is a record whose kind is "return" or "raise".           *)
(***************************************************************************)
EXTENDS Integers, Sequences, FiniteSets, TLC

(***************************************************************************)
(* Python str and list primitives used by the source.                      *)
(***************************************************************************)
None == <<"None">>
NoneObj == [kind |-> "None"]

Min(a, b) == IF a < b THEN a ELSE b

\* s[:n] for n >= 0
Prefix(s, n) == SubSeq(s, 1, Min(n, Len(s)))

\* s[n:] for n >= 0
Suffix(s, n) == SubSeq(s, n + 1, Len(s))

\* seq[::-1]
Reverse(seq) == [k \in 1..Len(seq) |-> seq[Len(seq) + 1 - k]]

\* the 1-based place of the first occurrence of the substring p in s, 0 if none
\* (s.index(p) + 1 where p occurs; "p in s" is Find(s, p) # 0)
Find(s, p) ==
    LET hits == {k \in 1..(Len(s) - Len(p) + 1) : SubSeq(s, k, k + Len(p) - 1) = p}
    IN  IF hits = {} THEN 0 ELSE CHOOSE k \in hits : \A j \in hits : k <= j

\* s.split(".")
RECURSIVE split(_)
split(s) ==
    LET k == Find(s, <<".">>)
    IN  IF k = 0 THEN <<s>>
        ELSE <<SubSeq(s, 1, k - 1)>> \o split(Suffix(s, k))

\* '.'.join(labels)
RECURSIVE join(_)
join(labels) ==
    IF Len(labels) = 0 THEN << >>
    ELSE IF Len(labels) = 1 THEN labels[1]
    ELSE labels[1] \o <<".">> \o join(Tail(labels))

IsSpace(c) == c \in {" ", "\t", "\r", "\n"}

\* s.strip()
strip(s) ==
    LET keep == {k \in 1..Len(s) : ~IsSpace(s[k])}
    IN  IF keep = {} THEN << >>
        ELSE SubSeq(s, CHOOSE k \in keep : \A j \in keep : k <= j,
                       CHOOSE k \in keep : \A j \in keep : k >= j)

\* labels[:-i] for i >= 0: Python reads the stop -0 as 0, so i = 0 gives []
AllButLast(labels, i) ==
    IF i = 0 THEN << >> ELSE SubSeq(labels, 1, Len(labels) - i)

(***************************************************************************)
(* suffixes.py: module constants and is_puny_code.                         *)
(***************************************************************************)
PUNY_PREFIX == <<"x", "n", "-", "-">>

is_puny_code(label) == Prefix(label, 4) = PUNY_PREFIX

(***************************************************************************)
(* _TLDInfo and _SuffixInfo (dataclasses, compared by value).              *)
(***************************************************************************)
_TLDInfo(suffix, puny, tld_type, registry, create_date) ==
    [kind |-> "_TLDInfo", suffix |-> suffix, puny |-> puny, tld_type |-> tld_type,
     registry |-> registry, create_date |-> create_date]

_SuffixInfo(suffix, is_public, root_suffix) ==
    [kind |-> "_SuffixInfo", suffix |-> suffix, is_public |-> is_public,
     root_suffix |-> root_suffix]

(***************************************************************************)
(* _Node and _Trie.  The trie is the function from a node's path (the      *)
(* labels from the root down to it, the TLD label first; the root is       *)
(* << >>) to the node's fields.  A node's children dictionary is the set   *)
(* of paths one label longer than its own.                                 *)
(***************************************************************************)
_Node(label) ==
    [label |-> label, is_end |-> FALSE, is_tld |-> FALSE, is_suffix |-> FALSE,
     metadata |-> NoneObj]

\* _Trie.__init__
_Trie == (<< >> :> _Node(<< >>))

\* node.children, as the set of its keys
children(t, node) ==
    {p[Len(p)] : p \in {q \in DOMAIN t : Len(q) = Len(node) + 1
                                         /\ SubSeq(q, 1, Len(node)) = node}}

\* _Node.set_metadata
set_metadata(node, metadata) ==
    IF metadata.kind = "_TLDInfo"
    THEN [node EXCEPT !.metadata = metadata, !.is_tld = TRUE, !.is_suffix = FALSE]
    ELSE IF metadata.kind = "_SuffixInfo"
    THEN [node EXCEPT !.metadata = metadata, !.is_tld = FALSE, !.is_suffix = TRUE,
                      !.is_end = TRUE]
    ELSE [node EXCEPT !.metadata = metadata]

\* the loop of _Trie.insert over the remaining labels, from the node reached
RECURSIVE insert_loop(_, _, _)
insert_loop(t, node, labels) ==
    IF Len(labels) = 0 THEN [trie |-> t, node |-> node]
    ELSE LET label == Head(labels)
             found_node == Append(node, label)
         IN  IF label \in children(t, node)
             THEN insert_loop(t, found_node, Tail(labels))
             ELSE insert_loop((found_node :> _Node(label)) @@ t, found_node,
                              Tail(labels))

\* _Trie.insert; is_public_suffix is "None" for a TLD insert. The trie after it.
insert(t, suffix, metadata, is_public_suffix) ==
    LET labels == Reverse(split(suffix))
        w == insert_loop(t, << >>, labels)
        tld_info == <<labels[1]>>
        md == IF is_public_suffix # "None"
              THEN _SuffixInfo(suffix, is_public_suffix, w.trie[tld_info].metadata)
              ELSE metadata
    IN  [w.trie EXCEPT ![w.node] = set_metadata(@, md)]

\* the loop of _Trie.get_node: a label with no child is skipped, not a stop
RECURSIVE get_node_loop(_, _, _)
get_node_loop(t, node, labels) ==
    IF Len(labels) = 0 THEN node
    ELSE LET tmp == Append(node, Head(labels))
         IN  IF Head(labels) \in children(t, node)
             THEN get_node_loop(t, tmp, Tail(labels))
             ELSE get_node_loop(t, node, Tail(labels))

\* _Trie.get_node: the path of the node reached in a record, or NoneObj
get_node(t, labels) ==
    LET node == get_node_loop(t, << >>, Reverse(labels))
    IN  IF node = << >> THEN NoneObj ELSE [kind |-> "_Node", path |-> node]

\* longest_loop with the break at the end of the loop body: the walk never goes
\* below the root's children
longest_loop_one_level(t, node, rev_labels, k) ==
    IF Len(rev_labels) > 0 /\ rev_labels[1] \in children(t, node)
    THEN [node |-> Append(node, rev_labels[1]), i |-> 0]
    ELSE [node |-> node, i |-> 0]

\* the loop of _Trie.get_longest_sequence from its k-th iteration (k from 0):
\* the node reached and the value the loop variable i is left with
RECURSIVE longest_loop(_, _, _, _)
longest_loop(t, node, rev_labels, k) ==
    IF k = Len(rev_labels) THEN [node |-> node, i |-> k - 1]
    ELSE LET label == rev_labels[k + 1]
         IN  IF label \in children(t, node)
             THEN longest_loop(t, Append(node, label), rev_labels, k + 1)
             ELSE [node |-> node, i |-> k]

\* _Trie.get_longest_sequence: the pair (node.metadata, labels[:-i]) returned, or
\* the KeyError of the dictionary lookup. A _Node is always truthy, so the
\* final "return None" is never taken.
get_longest_sequence(t, fqdn, puny_suffixes) ==
    LET labels == split(fqdn)
        rev_labels == Reverse(labels)
    IN  IF is_puny_code(rev_labels[1]) /\ rev_labels[1] \notin DOMAIN puny_suffixes
        THEN [kind |-> "raise", exc |-> "KeyError"]
        ELSE LET rev == IF is_puny_code(rev_labels[1])
                        THEN [rev_labels EXCEPT ![1] = puny_suffixes[rev_labels[1]]]
                        ELSE rev_labels
                 w == longest_loop(t, << >>, rev, 0)
             IN  [kind |-> "return",
                  value |-> [metadata |-> t[w.node].metadata,
                             labels |-> AllButLast(labels, w.i)]]

(***************************************************************************)
(* ipv4_pattern and ipv6_pattern, as the set of strings that               *)
(* pattern.match(fqdn) accepts.  ipv4_pattern is anchored at both ends:    *)
(* four dot-separated octets.  ipv6_pattern is matched at the start of the *)
(* string only (it has no closing anchor), so a string is accepted when    *)
(* one of its alternatives matches a prefix: every alternative that opens  *)
(* with hex groups "h:" and goes on with a second ":" is covered by        *)
(* ([0-9a-fA-F]{1,4}:){1,7}: , every one that opens with "::" by the       *)
(* alternative :(...|:), which leaves the full eight-group form and the    *)
(* fe80:%zone form.                                                        *)
(***************************************************************************)
Digit == {"0", "1", "2", "3", "4", "5", "6", "7", "8", "9"}

HexDigit == Digit \cup {"a", "b", "c", "d", "e", "f", "A", "B", "C", "D", "E", "F"}

AlphaNum ==
    HexDigit \cup {"g", "h", "i", "j", "k", "l", "m", "n", "o", "p", "q", "r", "s", "t",
                  "u", "v", "w", "x", "y", "z", "G", "H", "I", "J", "K", "L", "M", "N",
                  "O", "P", "Q", "R", "S", "T", "U", "V", "W", "X", "Y", "Z"}

\* [0-9]|[1-9][0-9]|1[0-9]{2}|2[0-4][0-9]|25[0-5]
IsOctet(p) ==
    /\ Len(p) \in 1..3
    /\ \A k \in 1..Len(p) : p[k] \in Digit
    /\ Len(p) = 2 => p[1] # "0"
    /\ Len(p) = 3 => \/ p[1] = "1"
                     \/ p[1] = "2" /\ p[2] \in {"0", "1", "2", "3", "4"}
                     \/ p[1] = "2" /\ p[2] = "5" /\ p[3] \in {"0", "1", "2", "3", "4", "5"}

\* ipv4_pattern.match(fqdn) is not None
ipv4_match(fqdn) ==
    LET parts == split(fqdn)
    IN  Len(parts) = 4 /\ \A k \in 1..4 : IsOctet(parts[k])

\* the place after one group [0-9a-fA-F]{1,4}: starting at place pos, 0 if none
GroupEnd(s, pos) ==
    LET ends == {e \in (pos + 1)..Min(pos + 4, Len(s)) :
                    /\ s[e] = ":"
                    /\ \A k \in pos..(e - 1) : s[k] \in HexDigit}
    IN  IF ends = {} THEN 0 ELSE (CHOOSE e \in ends : TRUE) + 1

\* after m leading groups, at place pos: does a prefix of s match?
RECURSIVE GroupsThenMatch(_, _, _)
GroupsThenMatch(s, pos, m) ==
    LET e == IF m < 7 THEN GroupEnd(s, pos) ELSE 0
    IN  IF e # 0 THEN GroupsThenMatch(s, e, m + 1)
        ELSE /\ m >= 1
             /\ pos <= Len(s)
             /\ \/ s[pos] = ":"
                \/ m = 7 /\ s[pos] \in HexDigit

\* ipv6_pattern.match(fqdn) is not None
ipv6_match(fqdn) ==
    \/ Prefix(fqdn, 2) = <<":", ":">>
    \/ Prefix(fqdn, 6) = <<"f", "e", "8", "0", ":", "%">>
          /\ Len(fqdn) > 6 /\ fqdn[7] \in AlphaNum
    \/ GroupsThenMatch(fqdn, 1, 0)

(***************************************************************************)
(* ParsedResult and its properties.  A property's outcome is "return"      *)
(* with its value, or the IndexError of host_labels[-1] on an empty list.  *)
(***************************************************************************)
ParsedResult(tld, tld_puny, tld_type, tld_registry, tld_create_date, effective_tld, effective_tld_is_public, host_labels, ipv4, ipv6) ==
    [kind |-> "ParsedResult", tld |-> tld, tld_puny |-> tld_puny,
     tld_type |-> tld_type, tld_registry |-> tld_registry,
     tld_create_date |-> tld_create_date, effective_tld |-> effective_tld,
     effective_tld_is_public |-> effective_tld_is_public,
     host_labels |-> host_labels, ipv4 |-> ipv4, ipv6 |-> ipv6]

Return(v) == [kind |-> "return", value |-> v]

Raise(e) == [kind |-> "raise", exc |-> e]

is_ip(self) == self.ipv4 \/ self.ipv6

is_fqdn(self) == ~is_ip(self)

\* f"{self.host_labels[-1]}.{self.effective_tld}"
registrable_domain(self) ==
    IF is_fqdn(self)
    THEN IF Len(self.host_labels) = 0 THEN Raise("IndexError")
         ELSE Return(self.host_labels[Len(self.host_labels)] \o <<".">>
                     \o self.effective_tld)
    ELSE Return(None)

registrable_domain_host(self) ==
    IF is_fqdn(self)
    THEN IF Len(self.host_labels) = 0 THEN Raise("IndexError")
         ELSE Return(self.host_labels[Len(self.host_labels)])
    ELSE Return(None)

\* f"{'.'.join(self.host_labels)}.{self.effective_tld}", or the IP string itself
fqdn(self) ==
    IF is_fqdn(self)
    THEN Return(join(self.host_labels) \o <<".">> \o self.effective_tld)
    ELSE Return(self.host_labels[1])

\* host_labels[:-1]
pqdn_labels(self) ==
    IF is_fqdn(self) THEN Return(AllButLast(self.host_labels, 1))
    ELSE Return(None)

pqdn(self) ==
    IF is_fqdn(self) THEN Return(join(AllButLast(self.host_labels, 1)))
    ELSE Return(None)

(***************************************************************************)
(* Suffixes: the queries, as functions of the registry's two fields.       *)
(***************************************************************************)
\* Suffixes.get_all_tlds: the keys of the root's children
get_all_tlds(t) == children(t, << >>)

\* Suffixes.get_tld
get_tld(t, puny_suffixes, host) ==
    LET r == get_longest_sequence(t, host, puny_suffixes)
    IN  IF r.kind = "raise" THEN r
        ELSE LET node == r.value.metadata
             IN  IF node.kind # "None" THEN Return(node.suffix) ELSE Return(None)

\* _ip_result with the second flag a copy of the first
_ip_result_same_flag(ip, is_ipv4) ==
    ParsedResult(None, None, None, None, None, None, "None", <<ip>>, is_ipv4, is_ipv4)

\* Suffixes._ip_result
_ip_result(ip, is_ipv4) ==
    ParsedResult(None, None, None, None, None, None, "None", <<ip>>, is_ipv4, ~is_ipv4)

\* Suffixes.parse. Reading .suffix or .puny of a root_suffix that is None or a
\* _SuffixInfo raises AttributeError.
parse(t, puny_suffixes, host, skip_ip_check, skip_protocol_check) ==
    IF ~skip_ip_check /\ ipv4_match(host) THEN Return(_ip_result(host, TRUE))
    ELSE IF ~skip_ip_check /\ ipv6_match(host) THEN Return(_ip_result(host, FALSE))
    ELSE
      LET index == Find(host, <<":", "/", "/">>)
          stripped == IF ~skip_protocol_check /\ index # 0
                      THEN Suffix(host, index + 2) ELSE host
          r == get_longest_sequence(t, stripped, puny_suffixes)
      IN  IF r.kind = "raise" THEN r
          ELSE
            LET node == r.value.metadata
                host_labels == r.value.labels
            IN  IF node.kind = "None" THEN Return(NoneObj)
                ELSE IF node.kind = "_TLDInfo"
                THEN Return(ParsedResult(node.suffix, node.puny, node.tld_type,
                                         node.registry, node.create_date, node.suffix,
                                         "True", host_labels, FALSE, FALSE))
                ELSE IF node.root_suffix.kind # "_TLDInfo" THEN Raise("AttributeError")
                ELSE Return(ParsedResult(node.root_suffix.suffix, node.root_suffix.puny,
                                         node.root_suffix.tld_type,
                                         node.root_suffix.registry,
                                         node.root_suffix.create_date, node.suffix,
                                         node.is_public, host_labels, FALSE, FALSE))

(***************************************************************************)
(* Suffixes.__init__ without a cache: the steps of the construction.  The  *)
(* fetched documents are inputs: the rows of the IANA table as             *)
(* load_all_tlds reads them (tld, puny_tld, tld_type, registry), the       *)
(* registration dates, and the lines of the public suffix list.  A str     *)
(* the code only copies or compares whole is written Text("...").          *)
(***************************************************************************)
Text(s) == <<s>>

revoked_tld == Text("Not assigned")

\* the body of the loop of load_all_tlds for one row
load_tld_row(t, row, tld_reg_dates) ==
    IF row.registry # revoked_tld
    THEN LET tld_reg_date == IF row.tld \in DOMAIN tld_reg_dates
                             THEN tld_reg_dates[row.tld] ELSE None
         IN  insert(t, row.tld,
                    _TLDInfo(row.tld, row.puny_tld, row.tld_type, row.registry,
                             tld_reg_date),
                    "None")
    ELSE t

onion == <<"o", "n", "i", "o", "n">>

\* Suffixes.load_manual_tlds
load_manual_tlds(t) ==
    insert(t, onion,
           _TLDInfo(onion, None, Text("host_suffix"), Text("Tor"), Text("2015-09-15")),
           "None")

\* the punycode reverse index Suffixes.__init__ builds from the root's children:
\* puny -> suffix for every child whose _TLDInfo has a non-empty puny
puny_index(t) ==
    LET with_puny == {tld \in children(t, << >>) :
                         /\ t[<<tld>>].metadata.puny # None
                         /\ t[<<tld>>].metadata.puny # << >>}
        aliases == {t[<<tld>>].metadata.puny : tld \in with_puny}
    IN  [p \in aliases |->
            t[<<CHOOSE tld \in with_puny : t[<<tld>>].metadata.puny = p>>].metadata.suffix]

PRIVATE_MARKER ==
    <<"/", "/", " ", "=", "=", "=", "B", "E", "G", "I", "N", " ", "P", "R", "I", "V",
      "A", "T", "E", " ", "D", "O", "M", "A", "I", "N", "S", "=", "=", "=">>

\* suffix_list[k] for a Python index k >= -1 (k = -1 is the last line)
Line(suffix_list, k) ==
    IF k < 0 THEN suffix_list[Len(suffix_list) + 1 + k] ELSE suffix_list[k + 1]

\* the body of the loop of enrich_tld_suffixes for line i (from 0): the trie and
\* the flag after it, and whether it raised (ValueError of puny.index(" ")).
\* The marker line sets the flag and, not being skipped, is then treated as a
\* suffix line like any other.
enrich_line(t, suffix_list, i, is_public_suffix) ==
    LET line == Line(suffix_list, i)
        flag == IF line = PRIVATE_MARKER THEN "False" ELSE is_public_suffix
        skip == line # PRIVATE_MARKER
                   /\ (Len(line) = 0 \/ Prefix(line, 3) = <<"/", "/", " ">>)
        stripped == strip(line)
        suffix == IF Prefix(stripped, 2) = <<"*", ".">> \/ Prefix(stripped, 2) = <<"!", ".">>
                  THEN Suffix(stripped, 2) ELSE stripped
        previous_line == Line(suffix_list, i - 1)
        has_puny == Find(previous_line, <<"/", "/", " ", "x", "n", "-", "-">>) # 0
        after == Suffix(previous_line, 3)
        space == Find(after, <<" ">>)
        puny == IF has_puny THEN Prefix(after, space - 1) ELSE None
    IN  IF skip THEN [trie |-> t, flag |-> flag, raised |-> FALSE]
        ELSE IF Find(suffix, <<".">>) # 0
        THEN [trie |-> insert(t, suffix, NoneObj, flag), flag |-> flag,
              raised |-> FALSE]
        ELSE IF get_node(t, <<suffix>>) # NoneObj
        THEN [trie |-> t, flag |-> flag, raised |-> FALSE]
        ELSE IF has_puny /\ space = 0
        THEN [trie |-> t, flag |-> flag, raised |-> TRUE]
        ELSE [trie |-> insert(t, suffix,
                              _TLDInfo(suffix, puny, Text("country-code"), None, None),
                              "None"),
              flag |-> flag, raised |-> FALSE]

(***************************************************************************)
(* The inputs the model draws from.                                        *)
(***************************************************************************)
uk == <<"u", "k">>
co == <<"c", "o">>
zz == <<"z", "z">>
\* "手机" and its alias "xn--kput3i", a TLD of the IANA table
shouji == <<"U+624B", "U+673A">>
xn_kput3i == <<"x", "n", "-", "-", "k", "p", "u", "t", "3", "i">>
\* "бел" and its alias "xn--90ais", a TLD only the public suffix list names
bel == <<"U+0431", "U+0435", "U+043B">>
xn_90ais == <<"x", "n", "-", "-", "9", "0", "a", "i", "s">>
\* an ACE label that is nobody's alias
xn_zz == <<"x", "n", "-", "-", "z", "z">>

\* s1 + "." + s2
Dot(s1, s2) == s1 \o <<".">> \o s2

\* the rows of the IANA table; the last one is a TLD no longer delegated
TldRows ==
    << [tld |-> uk, puny_tld |-> None, tld_type |-> Text("country-code"),
        registry |-> Text("Nominet UK")],
       [tld |-> shouji, puny_tld |-> xn_kput3i, tld_type |-> Text("generic"),
        registry |-> Text("Beijing RITT-Net Technology Development Co., Ltd")],
       [tld |-> <<"m", "c", "d">>, puny_tld |-> None, tld_type |-> Text("generic"),
        registry |-> Text("Not assigned")] >>

\* load_tld_create_dates: no date is on file for "手机"
TldRegDates == (uk :> Text("1985-07-24"))

COMMENT_UK == <<"/", "/", " ", "u", "k", " ", ":", " ", "N", "o", "m", "i", "n", "e", "t">>
COMMENT_BEL ==
    <<"/", "/", " ", "x", "n", "-", "-", "9", "0", "a", "i", "s", " ", ":", " ", "B", "Y">>
COMMENT_NO_SPACE == <<"/", "/", " ", "x", "n", "-", "-", "9", "0", "a", "i", "s">>

\* fragments of the public suffix list, each the lines of one fetched document
SuffixLists ==
    { \* one two-label suffix
      <<Dot(co, uk)>>,
      \* a comment, a TLD the table has, a two-label suffix, the empty last line
      <<COMMENT_UK, uk, Dot(co, uk), << >>>>,
      \* a suffix two labels below another one, and a line given twice
      <<Dot(co, uk), Dot(<<"a">>, Dot(<<"b">>, Dot(co, uk))), Dot(co, uk)>>,
      \* a three-label suffix right under the TLD
      <<COMMENT_UK, Dot(<<"a">>, Dot(<<"b">>, uk))>>,
      \* a wildcard and an exception rule
      <<<<"*", ".">> \o uk, <<"!", ".">> \o Dot(<<"b">>, Dot(co, uk))>>,
      \* an IDN TLD the table lacks, its alias in the comment above it
      <<COMMENT_BEL, bel, Dot(co, bel)>>,
      \* the same with the comment last: line 0 reads the last line as previous
      <<bel, Dot(co, uk), COMMENT_BEL>>,
      \* public suffixes, the marker, private suffixes
      <<Dot(co, uk), PRIVATE_MARKER, Dot(<<"b">>, Dot(co, uk)), Dot(<<"a">>, uk)>>,
      \* a suffix under a TLD nobody inserted, then that TLD
      <<Dot(<<"a">>, zz), zz>>,
      \* an alias comment without the space that ends the alias
      <<Dot(co, uk), COMMENT_NO_SPACE, bel>> }

\* the labels a queried host is made of: any of InnerLabels, up to
\* MaxExtraLabels of them, to the left of one of LastLabels
InnerLabels == {<<"x">>, <<"a">>, <<"b">>, co}

LastLabels == {uk, shouji, xn_kput3i, bel, xn_90ais, xn_zz, zz}

MaxExtraLabels == 2

RECURSIVE LabelLists(_)
LabelLists(n) ==
    IF n = 0 THEN {<< >>}
    ELSE LabelLists(n - 1)
           \cup {<<l>> \o ls : l \in InnerLabels,
                               ls \in {q \in LabelLists(n - 1) : Len(q) = n - 1}}

\* hosts that are IP literals, or look like one, or carry a scheme, a trailing
\* dot or nothing at all
OtherHosts ==
    { <<"6", "5", ".", "2", "2", ".", "2", "1", "8", ".", "1">>,
      <<"2", "5", "6", ".", "1", ".", "1", ".", "1">>,
      <<"2", "a", "0", "1", ":", "8", "8", "4", "0", ":", "d", "5", ":", "0", ":", "0",
        ":", "0", ":", "0", ":", "1">>,
      <<"a", "b", ":", ":">> \o xn_zz,
      <<"h", "t", "t", "p", ":", "/", "/">> \o Dot(<<"x">>, Dot(co, uk)),
      Dot(<<"x">>, uk) \o <<".">>,
      << >> }

Hosts ==
    {join(ls \o <<t>>) : ls \in LabelLists(MaxExtraLabels), t \in LastLabels}
      \cup OtherHosts

\* the label lists get_node is asked for
NodeLabels ==
    {<<t>> : t \in LastLabels} \cup {<<l, t>> : l \in InnerLabels, t \in {uk, zz}}

(***************************************************************************)
(* The state: the fetched suffix list, the position of the construction,   *)
(* the two fields of the Suffixes object, and the call last made on it     *)
(* with its outcome.                                                       *)
(***************************************************************************)
VARIABLES
    pc,                \* the step of Suffixes.__init__ to take next, then "ready"
    suffix_list,       \* enrich_tld_suffixes: the lines of the fetched list
    row,               \* load_all_tlds: rows of the table done
    i,                 \* enrich_tld_suffixes: the loop variable
    is_public_suffix,  \* enrich_tld_suffixes: the flag the marker line clears
    _suffix_trie,      \* self._suffix_trie
    _puny_suffixes,    \* self._puny_suffixes
    ret                \* the call in progress on the built object and its outcome

vars == <<pc, suffix_list, row, i, is_public_suffix, _suffix_trie, _puny_suffixes, ret>>

registry == <<_suffix_trie, _puny_suffixes>>

build == <<pc, suffix_list, row, i, is_public_suffix>>

NoCall == [op |-> "none"]

Init ==
    /\ pc = "load_all_tlds"
    /\ suffix_list \in SuffixLists
    /\ row = 0
    /\ i = 0
    /\ is_public_suffix = "True"
    /\ _suffix_trie = _Trie
    /\ _puny_suffixes = << >>
    /\ ret = NoCall

\* load_all_tlds: one row of the table
LoadTldRow ==
    /\ pc = "load_all_tlds"
    /\ _suffix_trie' = load_tld_row(_suffix_trie, TldRows[row + 1], TldRegDates)
    /\ row' = row + 1
    /\ pc' = IF row + 1 = Len(TldRows) THEN "load_manual_tlds" ELSE pc
    /\ UNCHANGED <<suffix_list, i, is_public_suffix, _puny_suffixes, ret>>

\* load_manual_tlds
LoadManualTlds ==
    /\ pc = "load_manual_tlds"
    /\ _suffix_trie' = load_manual_tlds(_suffix_trie)
    /\ pc' = "puny_suffixes"
    /\ UNCHANGED <<suffix_list, row, i, is_public_suffix, _puny_suffixes, ret>>

\* the punycode reverse index, built between load_manual_tlds and
\* enrich_tld_suffixes
BuildPunySuffixes ==
    /\ pc = "puny_suffixes"
    /\ _puny_suffixes' = puny_index(_suffix_trie)
    /\ pc' = "enrich_tld_suffixes"
    /\ UNCHANGED <<suffix_list, row, i, is_public_suffix, _suffix_trie, ret>>

\* enrich_tld_suffixes: one line of the list; an exception ends the construction
\* and no Suffixes object exists
EnrichLine ==
    /\ pc = "enrich_tld_suffixes"
    /\ LET r == enrich_line(_suffix_trie, suffix_list, i, is_public_suffix)
       IN  /\ _suffix_trie' = r.trie
           /\ is_public_suffix' = r.flag
           /\ pc' = IF r.raised THEN "raised"
                    ELSE IF i + 1 = Len(suffix_list) THEN "ready" ELSE pc
           /\ i' = IF r.raised THEN i ELSE i + 1
    /\ UNCHANGED <<suffix_list, row, _puny_suffixes, ret>>

\* suffixes.get_all_tlds()
GetAllTlds ==
    /\ pc = "ready" /\ ret = NoCall
    /\ ret' = [op |-> "get_all_tlds", out |-> Return(get_all_tlds(_suffix_trie))]
    /\ UNCHANGED <<build, registry>>

\* get_tld walking the labels of host the way insert walks them, a missing
\* child created on the way
GetTld_creating(host) ==
    /\ pc = "ready" /\ ret = NoCall
    /\ ret' = [op |-> "get_tld", host |-> host,
               out |-> get_tld(_suffix_trie, _puny_suffixes, host)]
    /\ _suffix_trie' = insert_loop(_suffix_trie, << >>, Reverse(split(host))).trie
    /\ UNCHANGED <<build, _puny_suffixes>>

\* suffixes.get_tld(host)
GetTld(host) ==
    /\ pc = "ready" /\ ret = NoCall
    /\ ret' = [op |-> "get_tld", host |-> host,
               out |-> get_tld(_suffix_trie, _puny_suffixes, host)]
    /\ UNCHANGED <<build, registry>>

\* suffixes.parse(host, skip_ip_check, skip_protocol_check)
Parse(host, skip_ip_check, skip_protocol_check) ==
    /\ pc = "ready" /\ ret = NoCall
    /\ ret' = [op |-> "parse", host |-> host, skip_ip_check |-> skip_ip_check,
               skip_protocol_check |-> skip_protocol_check,
               out |-> parse(_suffix_trie, _puny_suffixes, host, skip_ip_check,
                             skip_protocol_check)]
    /\ UNCHANGED <<build, registry>>

\* suffixes._suffix_trie.get_longest_sequence(host, suffixes._puny_suffixes)
GetLongestSequence(host) ==
    /\ pc = "ready" /\ ret = NoCall
    /\ ret' = [op |-> "get_longest_sequence", host |-> host,
               out |-> get_longest_sequence(_suffix_trie, host, _puny_suffixes)]
    /\ UNCHANGED <<build, registry>>

\* suffixes._suffix_trie.get_node(labels)
GetNode(labels) ==
    /\ pc = "ready" /\ ret = NoCall
    /\ ret' = [op |-> "get_node", labels |-> labels,
               out |-> Return(get_node(_suffix_trie, labels))]
    /\ UNCHANGED <<build, registry>>

\* the caller drops the outcome; the object is ready for the next call
Discard ==
    /\ pc = "ready" /\ ret # NoCall
    /\ ret' = NoCall
    /\ UNCHANGED <<build, registry>>

Next ==
    \/ LoadTldRow
    \/ LoadManualTlds
    \/ BuildPunySuffixes
    \/ EnrichLine
    \/ GetAllTlds
    \/ \E host \in Hosts : GetTld(host)
    \/ \E host \in Hosts, skip_ip_check \in BOOLEAN, skip_protocol_check \in BOOLEAN :
          Parse(host, skip_ip_check, skip_protocol_check)
    \/ \E host \in Hosts : GetLongestSequence(host)
    \/ \E labels \in NodeLabels : GetNode(labels)
    \/ Discard

Spec == Init /\ [][Next]_vars

(***************************************************************************)
(* Concurrent readers of the built object.  Each reader runs               *)
(* _Trie.get_longest_sequence one statement at a time, its locals in a     *)
(* frame of its own; ret.frames holds the frames.                          *)
(***************************************************************************)
Readers == {1, 2}

ReaderHosts ==
    {Dot(<<"x">>, Dot(co, uk)), Dot(co, uk), Dot(<<"a">>, Dot(<<"b">>, uk)),
     Dot(<<"x">>, xn_kput3i), Dot(<<"x">>, xn_90ais), xn_zz}

\* a reader between two calls
Idle == [at |-> "idle", fqdn |-> << >>, rev_labels |-> << >>, node |-> << >>,
         i |-> 0, out |-> NoneObj]

Frames == IF ret = NoCall THEN [r \in Readers |-> Idle] ELSE ret.frames

Reading == pc = "ready" /\ (ret = NoCall \/ ret.op = "readers")

\* lines 119-125: the locals are set and the last label is looked up in the
\* index
WalkBegin(r, host) ==
    /\ Reading /\ Frames[r].at = "idle"
    /\ LET rev_labels == Reverse(split(host))
           known == rev_labels[1] \in DOMAIN _puny_suffixes
           frame ==
               IF is_puny_code(rev_labels[1]) /\ ~known
               THEN [Idle EXCEPT !.at = "returned", !.fqdn = host,
                                 !.out = Raise("KeyError")]
               ELSE [Idle EXCEPT !.at = "loop", !.fqdn = host,
                         !.rev_labels =
                             IF is_puny_code(rev_labels[1])
                             THEN [rev_labels EXCEPT ![1] = _puny_suffixes[rev_labels[1]]]
                             ELSE rev_labels]
       IN  ret' = [op |-> "readers", frames |-> [Frames EXCEPT ![r] = frame]]
    /\ UNCHANGED <<build, registry>>

\* lines 127-131: one iteration of the loop
WalkStep(r) ==
    /\ Reading /\ Frames[r].at = "loop"
    /\ LET f == Frames[r]
           label == f.rev_labels[f.i + 1]
           found == label \in children(_suffix_trie, f.node)
           frame ==
               IF found /\ f.i + 1 < Len(f.rev_labels)
               THEN [f EXCEPT !.node = Append(f.node, label), !.i = f.i + 1]
               ELSE IF found
               THEN [f EXCEPT !.node = Append(f.node, label), !.at = "return"]
               ELSE [f EXCEPT !.at = "return"]
       IN  ret' = [op |-> "readers", frames |-> [Frames EXCEPT ![r] = frame]]
    /\ UNCHANGED <<build, registry>>

\* lines 132-133
WalkReturn(r) ==
    /\ Reading /\ Frames[r].at = "return"
    /\ LET f == Frames[r]
           out == Return([metadata |-> _suffix_trie[f.node].metadata,
                          labels |-> AllButLast(split(f.fqdn), f.i)])
       IN  ret' = [op |-> "readers",
                   frames |-> [Frames EXCEPT ![r] = [f EXCEPT !.at = "returned",
                                                              !.out = out]]]
    /\ UNCHANGED <<build, registry>>

\* the reader drops the outcome
WalkDiscard(r) ==
    /\ Reading /\ Frames[r].at = "returned"
    /\ ret' = [op |-> "readers", frames |-> [Frames EXCEPT ![r] = Idle]]
    /\ UNCHANGED <<build, registry>>

NextReaders ==
    \/ LoadTldRow
    \/ LoadManualTlds
    \/ BuildPunySuffixes
    \/ EnrichLine
    \/ \E r \in Readers, host \in ReaderHosts : WalkBegin(r, host)
    \/ \E r \in Readers : WalkStep(r)
    \/ \E r \in Readers : WalkReturn(r)
    \/ \E r \in Readers : WalkDiscard(r)

SpecReaders == Init /\ [][NextReaders]_vars

(***************************************************************************)
(* The _Trie class on its own: insert called directly, any call after any  *)
(* other.  ret holds the last call and whether it repeats the call before  *)
(* it, argument for argument.                                              *)
(***************************************************************************)
\* how many _SuffixInfo records are nested in a node's metadata
RECURSIVE Nesting(_)
Nesting(metadata) ==
    IF metadata.kind = "_SuffixInfo" THEN 1 + Nesting(metadata.root_suffix) ELSE 0

MaxNesting == 2

\* the suffixes insert is called with
InsertSuffixes == {uk, Dot(co, uk), Dot(<<"a">>, Dot(co, uk))}

\* the arguments of the calls: a _TLDInfo, or one of the two flags
InsertCalls ==
    {[suffix |-> sfx,
      metadata |-> _TLDInfo(sfx, None, Text("country-code"), None, None),
      is_public_suffix |-> "None"] : sfx \in InsertSuffixes}
      \cup {[suffix |-> sfx, metadata |-> NoneObj, is_public_suffix |-> flag] :
                sfx \in InsertSuffixes, flag \in {"True", "False"}}

InitTrie ==
    /\ pc = "trie"
    /\ suffix_list = << >>
    /\ row = 0
    /\ i = 0
    /\ is_public_suffix = "True"
    /\ _suffix_trie = _Trie
    /\ _puny_suffixes = << >>
    /\ ret = NoCall

\* trie.insert(suffix, metadata, is_public_suffix)
Insert(call) ==
    /\ pc = "trie"
    /\ _suffix_trie' = insert(_suffix_trie, call.suffix, call.metadata,
                              call.is_public_suffix)
    /\ \A p \in DOMAIN _suffix_trie' : Nesting(_suffix_trie'[p].metadata) <= MaxNesting
    /\ ret' = [op |-> "insert", call |-> call,
               again |-> ret.op = "insert" /\ ret.call = call]
    /\ UNCHANGED <<build, _puny_suffixes>>

NextTrie == \E call \in InsertCalls : Insert(call)

SpecTrie == InitTrie /\ [][NextTrie]_vars

(***************************************************************************)
(* What the claims speak of.                                               *)
(***************************************************************************)
\* the paths of the nodes that carry a _TLDInfo or a _SuffixInfo
WithMetadata == {p \in DOMAIN _suffix_trie : _suffix_trie[p].metadata.kind # "None"}

\* the suffix strings registered in the trie
Registered == {_suffix_trie[p].metadata.suffix : p \in WithMetadata}

\* ls2 is a list of labels that ends with the labels ls1
EndsWith(ls2, ls1) ==
    Len(ls1) <= Len(ls2) /\ SubSeq(ls2, Len(ls2) - Len(ls1) + 1, Len(ls2)) = ls1

\* a query has returned or raised
Called(op) == pc = "ready" /\ ret.op = op

C2_LongestMatch ==
    Called("get_tld") =>
        \A S1 \in Registered, S2 \in Registered :
            ((/\ S1 # S2
              /\ EndsWith(split(S2), split(S1))
              /\ EndsWith(split(ret.host), split(S2)))
                => /\ ret.out.kind = "return"
                   /\ ret.out.value \in Registered
                   /\ EndsWith(split(ret.out.value), split(S2)))

\* the _TLDInfo records of the trie that have a punycode alias
TldsWithAlias ==
    {_suffix_trie[p].metadata : p \in {q \in WithMetadata :
        /\ _suffix_trie[q].metadata.kind = "_TLDInfo"
        /\ _suffix_trie[q].metadata.puny # None}}

\* C3: for a _TLDInfo of the trie with alias p and suffix u and any label x,
\* get_tld(x + "." + p) equals get_tld(x + "." + u).
C3_PunycodeEquivalence ==
    Called("get_tld") =>
        \A m \in TldsWithAlias :
            LET labels == split(ret.host)
            IN  ((Len(labels) = 2 /\ labels[2] = m.puny)
                    => ret.out = get_tld(_suffix_trie, _puny_suffixes,
                                         Dot(labels[1], m.suffix)))

\* the rightmost label of a host
LastLabel(host) == split(host)[Len(split(host))]

\* parse takes the IP-literal exit for this call
IpExit(call) ==
    ~call.skip_ip_check /\ (ipv4_match(call.host) \/ ipv6_match(call.host))

\* the not-found value of the query
NotFound(op) == IF op = "parse" THEN Return(NoneObj) ELSE Return(None)

\* C4: a host whose rightmost label is not a root-level label of the trie (an
\* alias of the index standing for its TLD, an IP literal given to parse and a
\* host that parse strips a scheme from aside) gets None from get_tld and from
\* parse, and no exception.
C4_NonMatchIsNone ==
    (Called("get_tld") \/ Called("parse")) =>
        ((/\ LastLabel(ret.host) \notin get_all_tlds(_suffix_trie)
          /\ LastLabel(ret.host) \notin DOMAIN _puny_suffixes
          /\ ret.op = "parse" =>
                 /\ ~IpExit(ret)
                 /\ ret.skip_protocol_check \/ Find(ret.host, <<":", "/", "/">>) = 0)
            => ret.out = NotFound(ret.op))

\* C5: a host whose rightmost label starts with "xn--" and is not in the
\* punycode reverse index gets not-found from get_tld and parse and metadata
\* None from get_longest_sequence; none of them raises.
C5_UnknownPunycodeIsNone ==
    (Called("get_tld") \/ Called("parse") \/ Called("get_longest_sequence")) =>
        ((/\ is_puny_code(LastLabel(ret.host))
          /\ LastLabel(ret.host) \notin DOMAIN _puny_suffixes
          /\ ret.op = "parse" => ~IpExit(ret))
            => /\ ret.out.kind = "return"
               /\ ret.op = "get_longest_sequence" => ret.out.value.metadata = NoneObj
               /\ ret.op # "get_longest_sequence" => ret.out = NotFound(ret.op))

\* C6: parse of a host that matches the IPv4 (IPv6) pattern, the IP check not
\* skipped, returns what it returns on an empty trie with an empty index: a
\* result with every suffix field None, host_labels = [host], fqdn = host,
\* registrable_domain, registrable_domain_host and pqdn None, and ipv4 (ipv6)
\* the one flag set; no result has both flags set.
C6_IpLiteral ==
    Called("parse") =>
        /\ IpExit(ret) =>
             LET r == ret.out.value
                 v4 == ipv4_match(ret.host)
             IN  /\ ret.out.kind = "return"
                 /\ ret.out = parse(_Trie, << >>, ret.host, FALSE,
                                     ret.skip_protocol_check)
                 /\ r.kind = "ParsedResult"
                 /\ r.tld = None /\ r.tld_puny = None /\ r.tld_type = None
                 /\ r.tld_registry = None /\ r.tld_create_date = None
                 /\ r.effective_tld = None /\ r.effective_tld_is_public = "None"
                 /\ r.host_labels = <<ret.host>>
                 /\ fqdn(r) = Return(ret.host)
                 /\ registrable_domain(r) = Return(None)
                 /\ registrable_domain_host(r) = Return(None)
                 /\ pqdn(r) = Return(None)
                 /\ r.ipv4 = v4 /\ r.ipv6 = ~v4
        /\ (ret.out.kind = "return" /\ ret.out.value.kind = "ParsedResult")
             => ~(ret.out.value.ipv4 /\ ret.out.value.ipv6)

\* parse has returned the result of an IPv6 literal
C6_Witness ==
    /\ Called("parse")
    /\ ~ret.skip_ip_check
    /\ ipv6_match(ret.host)
    /\ ret.out.kind = "return"
    /\ ret.out.value.ipv6

\* C7: parse of a host that is no IP literal, whose rightmost label is not
\* ACE-encoded and that parse takes as given, when it returns a result r with
\* effective suffix S: r.fqdn is the host; and with a label left of S in the
\* host, r.registrable_domain is that label + "." + S, r.registrable_domain_host
\* is that label and r.pqdn is the dot-join of the labels left of it.
C7_Decomposition ==
    Called("parse") =>
        ((/\ ~ipv4_match(ret.host) /\ ~ipv6_match(ret.host)
          /\ ~is_puny_code(LastLabel(ret.host))
          /\ ret.skip_protocol_check \/ Find(ret.host, <<":", "/", "/">>) = 0
          /\ ret.out.kind = "return"
          /\ ret.out.value.kind = "ParsedResult")
            => LET r == ret.out.value
                   S == r.effective_tld
                   labels == split(ret.host)
                   left == Len(labels) - Len(split(S))
               IN  /\ fqdn(r) = Return(ret.host)
                   /\ left >= 1 =>
                        /\ registrable_domain(r) = Return(Dot(labels[left], S))
                        /\ registrable_domain_host(r) = Return(labels[left])
                        /\ pqdn(r) = Return(join(SubSeq(labels, 1, left - 1))))

\* C10: when get_longest_sequence returns metadata, that of a node k labels
\* deep, the residual is the first n - k of the n labels of the host, in order.
C10_Residual ==
    Called("get_longest_sequence") =>
        ((ret.out.kind = "return" /\ ret.out.value.metadata.kind # "None")
            => LET labels == split(ret.host)
                   k == Len(split(ret.out.value.metadata.suffix))
               IN  ret.out.value.labels = SubSeq(labels, 1, Len(labels) - k))

\* C9: once the object is built, no step of a call on it changes the trie or
\* the punycode index, whatever the call, its input and its outcome.
C9_QueriesReadOnly ==
    [][pc = "ready" => UNCHANGED registry]_vars

\* a call that ended in an exception has been made on the built object
C9_Witness ==
    /\ pc = "ready"
    /\ ret.op = "parse"
    /\ ret.out.kind = "raise"

\* C9, the readers: whatever the other reader does meanwhile, a walk returns
\* what get_longest_sequence returns when it runs alone.
C9_Interleaving ==
    (pc = "ready" /\ ret.op = "readers")
        => \A r \in Readers :
              ret.frames[r].at = "returned"
                  => ret.frames[r].out
                       = get_longest_sequence(_suffix_trie, ret.frames[r].fqdn,
                                              _puny_suffixes)

\* a walk has returned while the other reader is inside its loop
C9_InterleavingWitness ==
    /\ pc = "ready" /\ ret.op = "readers"
    /\ ret.frames[1].at = "returned" /\ ret.frames[1].out.kind = "return"
    /\ ret.frames[2].at = "loop" /\ ret.frames[2].i >= 1

\* the lookups of the trie give the same after the step as before it
SameLookups ==
    \A host \in Hosts :
        /\ get_longest_sequence(_suffix_trie', host, _puny_suffixes')
             = get_longest_sequence(_suffix_trie, host, _puny_suffixes)
        /\ get_tld(_suffix_trie', _puny_suffixes', host)
             = get_tld(_suffix_trie, _puny_suffixes, host)

\* C8 as stated: an insert that repeats the call before it, argument for
\* argument, adds no node, changes no node and changes no lookup.
C8_InsertTwice ==
    [][(ret'.op = "insert" /\ ret'.again)
          => (_suffix_trie' = _suffix_trie /\ SameLookups)]_vars

\* C8, the part the code keeps: the same of an insert that attaches a _TLDInfo,
\* or a _SuffixInfo to a suffix of two labels or more.
C8_InsertTwiceBelowTld ==
    [][(/\ ret'.op = "insert" /\ ret'.again
        /\ \/ ret'.call.is_public_suffix = "None"
           \/ Len(split(ret'.call.suffix)) >= 2)
          => (_suffix_trie' = _suffix_trie /\ SameLookups)]_vars

\* "co.uk" has been inserted twice running with the flag True, its TLD in place
C8_Witness ==
    /\ pc = "trie"
    /\ ret.op = "insert" /\ ret.again
    /\ ret.call.suffix = Dot(co, uk) /\ ret.call.is_public_suffix = "True"
    /\ _suffix_trie[<<uk>>].metadata.kind = "_TLDInfo"
    /\ _suffix_trie[<<uk, co>>].metadata.kind = "_SuffixInfo"

\* the nodes on the path of a node, the root aside, that carry metadata
MetadataOnPath(node) ==
    {k \in 1..Len(node) : _suffix_trie[SubSeq(node, 1, k)].metadata.kind # "None"}

\* the node the walk of get_longest_sequence stops on for this host
WalkedTo(host) ==
    LET rev_labels == Reverse(split(host))
        rev == IF is_puny_code(rev_labels[1])
               THEN [rev_labels EXCEPT ![1] = _puny_suffixes[rev_labels[1]]]
               ELSE rev_labels
    IN  longest_loop(_suffix_trie, << >>, rev, 0).node

\* C11: the metadata get_longest_sequence returns is that of the deepest node
\* on the walked path that carries metadata, also when the walk stops on a
\* deeper node that carries none.
C11_DeepestMetadataWins ==
    Called("get_longest_sequence") =>
        (ret.out.kind = "return"
            => LET node == WalkedTo(ret.host)
                   deep == MetadataOnPath(node)
               IN  deep # {}
                     => LET k == CHOOSE j \in deep : \A l \in deep : l <= j
                        IN  ret.out.value.metadata
                              = _suffix_trie[SubSeq(node, 1, k)].metadata)

\* C12: a suffix insert attaches nothing when the root-level node of its path
\* holds no _TLDInfo, so every _SuffixInfo in the trie refers to a _TLDInfo, at
\* every step of the construction and after it.
C12_SuffixRecordHasTld ==
    \A p \in WithMetadata :
        _suffix_trie[p].metadata.kind = "_SuffixInfo"
            => _suffix_trie[p].metadata.root_suffix.kind = "_TLDInfo"

\* C13: when the construction has finished, the punycode index maps alias to
\* suffix for every root-level _TLDInfo that has an alias, those made from
\* dot-less lines of the public suffix list included.
C13_IndexHoldsEveryAlias ==
    pc = "ready" =>
        \A tld \in children(_suffix_trie, << >>) :
            LET m == _suffix_trie[<<tld>>].metadata
            IN  (m.kind = "_TLDInfo" /\ m.puny # None)
                    => /\ m.puny \in DOMAIN _puny_suffixes
                       /\ _puny_suffixes[m.puny] = m.suffix

\* the suffix a line of the list stands for, its "*." or "!." taken off
LineSuffix(line) ==
    LET stripped == strip(line)
    IN  IF Prefix(stripped, 2) = <<"*", ".">> \/ Prefix(stripped, 2) = <<"!", ".">>
        THEN Suffix(stripped, 2) ELSE stripped

\* a line that is no suffix pattern: blank, a comment, or the marker
NoPattern(line) == Len(line) = 0 \/ Prefix(line, 2) = <<"/", "/">>

\* the marker line stands before the k-th line of the list
AfterMarker(k) == \E j \in 1..(k - 1) : suffix_list[j] = PRIVATE_MARKER

\* C14: when the construction has finished, no comment, blank or marker line
\* of the list has a node in the trie or is a label of get_all_tlds, and the
\* record of a suffix line of two labels or more is tagged public when the
\* line stands before the marker and private when it stands after it.
C14_OnlyPatternLinesInsert ==
    pc = "ready" =>
        /\ \A k \in 1..Len(suffix_list) :
              NoPattern(suffix_list[k])
                  => /\ <<suffix_list[k]>> \notin DOMAIN _suffix_trie
                     /\ suffix_list[k] \notin get_all_tlds(_suffix_trie)
        /\ \A k \in 1..Len(suffix_list) :
              LET suffix == LineSuffix(suffix_list[k])
                  node == Reverse(split(suffix))
              IN  (/\ ~NoPattern(suffix_list[k])
                   /\ Find(suffix, <<".">>) # 0
                   /\ \A j \in (k + 1)..Len(suffix_list) :
                         LineSuffix(suffix_list[j]) # suffix)
                      => /\ node \in DOMAIN _suffix_trie
                         /\ _suffix_trie[node].metadata.kind = "_SuffixInfo"
                         /\ _suffix_trie[node].metadata.is_public
                              = IF AfterMarker(k) THEN "False" ELSE "True"

====
